---- MODULE Spec2Model ----
(***************************************************************************)
(* gsaca-double-sort, the "for-lce" parallel suffix array construction     *)
(* (gsaca-double-sort/parallel-for-lce/gsaca-ds-par.hpp), the text and     *)
(* suffix-array views (wrappers.hpp) and the packed index and flag types   *)
(* (uint_types.hpp).                                                       *)
(*                                                                         *)
(* Spec      : the demo driver calling gsaca_for_lce three times on one    *)
(*             text, each call stepped through phase 0, phase 1, phase 2   *)
(*             and the final decrement, the parallel loops interleaved     *)
(*             thread by thread.                                           *)
(* SpecUInt  : the UIntPair and flag_type operations applied to operands   *)
(*             drawn from boundary values of every width.                  *)
(***************************************************************************)
EXTENDS Integers, Sequences, FiniteSets, TLC

\* longest text the driver is run on
MaxLen == 4

\* value_type = unsigned char: the smallest, a middle and the largest symbol
Symbols == {0, 1, 255}

\* the threads arguments of the three calls of main: default (0), 2, 4
ThreadArgs == <<0, 2, 4>>

\* the environments main runs in: omp_get_max_threads() and omp_get_dynamic()
Ambients == {[nthreads |-> 1, dyn |-> TRUE], [nthreads |-> 3, dyn |-> FALSE]}

VARIABLES
  text,      \* the caller's text, offsets 0..L-1
  useFlags,  \* template argument use_flags of gsaca_for_lce_wrapped
  omp,       \* the OpenMP ICVs: [nthreads, dyn]
  ompEntry,  \* the ICVs observed when the current call was entered
  call,      \* which call of main is running (1..3)
  pc,        \* position inside the current call
  pmax,      \* p_max of gsaca_for_lce_wrapped
  p,         \* p of gsaca_for_lce_wrapped
  sa,        \* caller buffer sa_type::sa, offsets 0..L-1
  sa01,      \* side slots sa_type::sa01, offsets 0..1
  next,      \* parallel loop: next[t] = iterations thread t has finished
  scan,      \* group scan locals: [i, left_border, gsize]
  result,    \* p1_stack_type result of sort_by_prefix_parallel
  isa,       \* rank table
  stack,     \* phase 1 work stack
  p2groups,  \* groups handed to phase 2
  oob,       \* a group outside the buffer was dereferenced
  P0,        \* per finished call: what sort_by_prefix_parallel returned
  OUT,       \* per finished call: the caller buffer after the call (SA1, SA2, SA3)
  ambient,   \* per finished call: <<ICVs at entry, ICVs after return>>
  u,         \* the UIntPair / flag operation under test (SpecUInt)
  acc,       \* the suffix array cells the current call has read or written so far
  entry      \* the suffix array when the current parallel loop was entered

vars == <<text, useFlags, omp, ompEntry, call, pc, pmax, p, sa, sa01, next,
          scan, result, isa, stack, p2groups, oob, P0, OUT, ambient, u,
          acc, entry>>

----------------------------------------------------------------------------
(* index_type = unsigned int.  A 32-bit cell is kept as its bit 31 (f) and *)
(* its bits 0..30 (v): the numeric value is f * 2^31 + v.                  *)

\* 2^31 - 1, the largest value of bits 0..30
LowMask31 == 2147483647

Cell(x) == [v |-> x, f |-> FALSE]

\* what malloc returned: never read before it is written
Garbage == [v |-> LowMask31, f |-> TRUE]

\* a < b on two unsigned int cells
CellLess(a, b) == (~a.f /\ b.f) \/ (a.f = b.f /\ a.v < b.v)

\* the decrement left out
CellDecNone(c) == c

\* --x on an unsigned int cell
CellDec(c) ==
  IF c.v > 0 THEN [c EXCEPT !.v = c.v - 1]
  ELSE [v |-> LowMask31, f |-> ~c.f]

L == Cardinality(DOMAIN text)

\* text.n and sa.n of the views gsaca_for_lce builds: text length + 2
n == L + 2

\* the increment done in value_type (unsigned char), not in uint128_t
TextViewWrap(i) == IF i > 0 /\ i < n - 1 THEN (text[i - 1] + 1) % 256 ELSE 0

\* text_type::operator[] for a size_t index
TextView(i) == IF i > 0 /\ i < n - 1 THEN text[i - 1] + 1 ELSE 0

\* text_type::operator[] for an index read from a suffix array cell
TextAt(c) == IF c.f THEN 0 ELSE TextView(c.v)

\* sa_type::operator[] read
SaGet(i) == IF i > 1 THEN sa[i - 2] ELSE sa01[i]

\* sa_type::operator[]: the cell logical slot i refers to
SaCell(i) ==
  IF i > 1 THEN [cell |-> "sa", off |-> i - 2] ELSE [cell |-> "sa01", off |-> i]

\* iteration iter of a stage, run by thread t, reads or writes sa[i]
Access(stage, t, iter, i) ==
  [stage |-> stage, t |-> t, iter |-> iter, slot |-> i, at |-> SaCell(i)]

\* flag_type<use_flags>::conditional_add_flag for index_type = unsigned int
conditional_add_flag32(b, c) ==
  IF useFlags THEN [c EXCEPT !.f = c.f \/ b] ELSE c

\* flag_type<use_flags>::remove_flag for index_type = unsigned int
remove_flag32(c) == IF useFlags THEN [c EXCEPT !.f = FALSE] ELSE c

----------------------------------------------------------------------------
(* OpenMP static schedule: iterations lo..hi-1 in contiguous chunks, the   *)
(* first (count % p) threads one iteration longer; a thread runs its chunk *)
(* in ascending order, the threads interleave freely.                      *)

\* every thread given the rounded-up share
ChunkSizeCeil(count, t) == (count \div p) + 1

ChunkSize(count, t) ==
  (count \div p) + (IF t < (count % p) THEN 1 ELSE 0)

RECURSIVE ChunkStart(_, _)
ChunkStart(count, t) ==
  IF t = 0 THEN 0 ELSE ChunkStart(count, t - 1) + ChunkSize(count, t - 1)

Threads == 0 .. (p - 1)

LoopStart == [t \in Threads |-> 0]

\* thread t still has an iteration to run
CanRun(count, t) == next[t] < ChunkSize(count, t)

\* every thread starting at the loop's lower bound
IterFromZero(count, t) == next[t]

\* the iteration (offset from the loop's lower bound) thread t runs next
Iter(count, t) == ChunkStart(count, t) + next[t]

Joined(count) == \A t \in Threads : ~CanRun(count, t)

----------------------------------------------------------------------------
\* a byte string as a text, offsets from 0
AsText(bytes) == [i \in 0 .. (Len(bytes) - 1) |-> bytes[i + 1]]

\* "mississippi", and the demo's input: "mississippi" with input[4] = 0
Mississippi == <<109, 105, 115, 115, 105, 115, 115, 105, 112, 112, 105>>
DemoInput == [Mississippi EXCEPT ![5] = 0]

Texts ==
  UNION {[0 .. (k - 1) -> Symbols] : k \in 0 .. MaxLen}
    \cup {AsText(Mississippi), AsText(DemoInput)}

NoScan == [i |-> 0, left_border |-> 0, gsize |-> 0]

Init ==
  /\ text \in Texts
  /\ useFlags \in BOOLEAN
  /\ omp \in Ambients
  /\ ompEntry = omp
  /\ call = 1
  /\ pc = "main"
  /\ pmax = 0
  /\ p = 1
  /\ sa = [i \in DOMAIN text |-> Garbage]
  /\ sa01 = [i \in 0 .. 1 |-> Cell(0)]
  /\ next = <<>>
  /\ scan = NoScan
  /\ result = <<>>
  /\ isa = <<>>
  /\ stack = <<>>
  /\ p2groups = <<>>
  /\ oob = FALSE
  /\ P0 = <<>>
  /\ OUT = <<>>
  /\ ambient = <<>>
  /\ u = [op |-> "none"]
  /\ acc = {}
  /\ entry = [sa |-> sa, sa01 |-> sa01]

----------------------------------------------------------------------------
(* main (demo), gsaca_for_lce and the thread setup of gsaca_for_lce_wrapped *)

\* sa_type::operator[] as the target of an assignment
SaWrite(i, c) ==
  IF i > 1
    THEN /\ sa' = [sa EXCEPT ![i - 2] = c]
         /\ UNCHANGED sa01
    ELSE /\ sa01' = [sa01 EXCEPT ![i] = c]
         /\ UNCHANGED sa

\* main calls gsaca_for_lce(T, SAk, n, threads); gsaca_for_lce builds the two
\* views (sa01 zero-initialised) and enters gsaca_for_lce_wrapped
Call ==
  /\ pc = "main"
  /\ call <= Len(ThreadArgs)
  /\ sa' = [i \in DOMAIN text |-> Garbage]
  /\ sa01' = [i \in 0 .. 1 |-> Cell(0)]
  /\ ompEntry' = omp
  /\ result' = <<>>
  /\ isa' = <<>>
  /\ pc' = "threads"
  /\ acc' = {}
  /\ UNCHANGED <<text, useFlags, omp, call, pmax, p, next, scan, stack,
                 p2groups, oob, P0, OUT, ambient, u, entry>>

\* p_max = omp_get_max_threads(); p = threads == 0 ? p_max : threads;
\* omp_set_dynamic(0); omp_set_num_threads(p)
SetThreads ==
  /\ pc = "threads"
  /\ pmax' = omp.nthreads
  /\ p' = IF ThreadArgs[call] = 0 THEN omp.nthreads ELSE ThreadArgs[call]
  /\ omp' = [nthreads |-> p', dyn |-> FALSE]
  /\ pc' = "seed"
  /\ UNCHANGED <<text, useFlags, ompEntry, call, sa, sa01, next, scan, result,
                 isa, stack, p2groups, oob, P0, OUT, ambient, u, acc, entry>>

----------------------------------------------------------------------------
(* sort_by_prefix_parallel                                                 *)

\* sa[0] = 0; sa[1] = n - 1
SeedSides ==
  /\ pc = "seed"
  /\ sa01' = [sa01 EXCEPT ![0] = Cell(0), ![1] = Cell(n - 1)]
  /\ next' = LoopStart
  /\ pc' = "fill"
  /\ acc' = acc \cup {Access("seed", 0, i, i) : i \in 0 .. 1}
  /\ entry' = [sa |-> sa, sa01 |-> sa01']
  /\ UNCHANGED <<text, useFlags, omp, ompEntry, call, pmax, p, sa, scan,
                 result, isa, stack, p2groups, oob, P0, OUT, ambient, u>>

\* the value the fill loop stores for iteration i
FillValue(i) == Cell(i)

\* one iteration of: for (i = 1; i < n - 1; ++i) sa[i + 1] = i
FillIter(t) ==
  /\ pc = "fill"
  /\ CanRun(n - 2, t)
  /\ LET i == 1 + Iter(n - 2, t) IN SaWrite(i + 1, FillValue(i))
  /\ next' = [next EXCEPT ![t] = next[t] + 1]
  /\ acc' = acc \cup {Access("fill", t, 1 + Iter(n - 2, t), 2 + Iter(n - 2, t))}
  /\ UNCHANGED <<text, useFlags, omp, ompEntry, call, pc, pmax, p, scan,
                 result, isa, stack, p2groups, oob, P0, OUT, ambient, u, entry>>

\* the implicit barrier ending the fill loop
FillJoin ==
  /\ pc = "fill"
  /\ Joined(n - 2)
  /\ pc' = "sort"
  /\ UNCHANGED <<text, useFlags, omp, ompEntry, call, pmax, p, sa, sa01, next,
                 scan, result, isa, stack, p2groups, oob, P0, OUT, ambient, u, acc, entry>>

\* the predicate with the symbols compared the wrong way round
compDescending(a, b) ==
  (TextAt(a) > TextAt(b)) \/ ((TextAt(a) = TextAt(b)) /\ CellLess(a, b))

\* the predicate without the tie-break on the position
compNoTie(a, b) == TextAt(a) < TextAt(b)

\* the predicate with the tie-break the wrong way round
compTieDown(a, b) ==
  (TextAt(a) < TextAt(b)) \/ ((TextAt(a) = TextAt(b)) /\ CellLess(b, a))

\* the predicate handed to the sort
comp(a, b) ==
  LET extracted1 == TextAt(a)
      extracted2 == TextAt(b)
  IN  (extracted1 < extracted2) \/ ((extracted1 = extracted2) /\ CellLess(a, b))

\* the rearrangements of the cells at offsets S that are ordered by comp: the
\* first cell is one that no other cell goes before
RECURSIVE Arrangements(_)
Arrangements(S) ==
  IF S = {} THEN {<<>>}
  ELSE UNION {{<<sa[m]>> \o r : r \in Arrangements(S \ {m})} :
                m \in {m \in S : \A x \in S : ~comp(sa[x], sa[m])}}

\* ips4o::parallel::sort(&sa.sa[0], &sa.sa[n - 2], comp): some rearrangement of
\* the range that is ordered by comp, whichever the threads produce
Sort ==
  /\ pc = "sort"
  /\ \E r \in Arrangements(DOMAIN sa) : sa' = [i \in DOMAIN sa |-> r[i + 1]]
  /\ pc' = "scan"
  /\ scan' = [i |-> 2, left_border |-> 2, gsize |-> 1]
  /\ acc' = acc \cup {[stage |-> "sort", t |-> 0, iter |-> 0, slot |-> o + 2,
                         at |-> [cell |-> "sa", off |-> o]] : o \in 0 .. (n - 3)}
  /\ UNCHANGED <<text, useFlags, omp, ompEntry, call, pmax, p, sa01, next,
                 result, isa, stack, p2groups, oob, P0, OUT, ambient, u, entry>>

\* p1_group_type{left_border, gsize, 1, true, false}
Group(left, size, rank) ==
  [left_border |-> left, gsize |-> size, rank |-> rank,
   sorted |-> TRUE, final |-> FALSE]

\* one iteration of: for (i = 2; i < n - 1; ++i)
ScanIter ==
  /\ pc = "scan"
  /\ scan.i < n - 1
  /\ IF TextAt(SaGet(scan.i)) = TextAt(SaGet(scan.i + 1))
       THEN /\ scan' = [scan EXCEPT !.i = scan.i + 1, !.gsize = scan.gsize + 1]
            /\ UNCHANGED result
       ELSE /\ result' = Append(result, Group(scan.left_border, scan.gsize, 1))
            /\ scan' = [i |-> scan.i + 1, left_border |-> scan.i + 1, gsize |-> 1]
  /\ acc' = acc \cup {Access("scan", 0, scan.i, i) : i \in {scan.i, scan.i + 1}}
  /\ UNCHANGED <<text, useFlags, omp, ompEntry, call, pc, pmax, p, sa, sa01,
                 next, isa, stack, p2groups, oob, P0, OUT, ambient, u, entry>>

\* the emplace_back after the loop
ScanEnd ==
  /\ pc = "scan"
  /\ ~(scan.i < n - 1)
  /\ result' = Append(result, Group(scan.left_border, scan.gsize, 1))
  /\ next' = LoopStart
  /\ pc' = "flags"
  /\ entry' = [sa |-> sa, sa01 |-> sa01]
  /\ UNCHANGED <<text, useFlags, omp, ompEntry, call, pmax, p, sa, sa01, scan,
                 isa, stack, p2groups, oob, P0, OUT, ambient, u, acc>>

\* idx - 1 for an unsigned int idx != 0
CellPred(c) == IF c.v > 0 THEN [c EXCEPT !.v = c.v - 1] ELSE [v |-> LowMask31, f |-> FALSE]

\* the flag set for text[idx - 1] <= text[idx]
FlagValueNonStrict(idx) ==
  IF idx # Cell(0)
    THEN conditional_add_flag32(TextAt(CellPred(idx)) <= TextAt(idx), idx)
    ELSE idx

\* (idx != 0) ? F::conditional_add_flag(text[idx - 1] < text[idx], idx) : idx
FlagValue(idx) ==
  IF idx # Cell(0)
    THEN conditional_add_flag32(TextAt(CellPred(idx)) < TextAt(idx), idx)
    ELSE idx

\* one iteration of: for (i = 0; i < n; ++i) sa[i] = ...
FlagIter(t) ==
  /\ pc = "flags"
  /\ CanRun(n, t)
  /\ LET i == Iter(n, t) IN SaWrite(i, FlagValue(SaGet(i)))
  /\ next' = [next EXCEPT ![t] = next[t] + 1]
  /\ acc' = acc \cup {Access("flags", t, Iter(n, t), Iter(n, t))}
  /\ UNCHANGED <<text, useFlags, omp, ompEntry, call, pc, pmax, p, scan,
                 result, isa, stack, p2groups, oob, P0, OUT, ambient, u, entry>>

\* the barrier of the flag loop, then sa[0] = n - 1; sa[1] = 0; return result
SwapSides ==
  /\ pc = "flags"
  /\ Joined(n)
  /\ sa01' = [sa01 EXCEPT ![0] = Cell(n - 1), ![1] = Cell(0)]
  /\ P0' = Append(P0, [sa |-> sa, sa01 |-> sa01', groups |-> result])
  /\ pc' = "p1init"
  /\ acc' = acc \cup {Access("swap", 0, i, i) : i \in 0 .. 1}
  /\ UNCHANGED <<text, useFlags, omp, ompEntry, call, pmax, p, sa, next, scan,
                 result, isa, stack, p2groups, oob, OUT, ambient, u, entry>>

----------------------------------------------------------------------------
(* Phase 1 and phase 2 (phase_1.hpp, phase_2.hpp): group refinement by the *)
(* rank of the successor suffix, and the final resolution of the groups    *)
(* phase 1 deferred.                                                       *)

\* suffix start position held in a cell, flag stripped
PosOf(c) == remove_flag32(c).v

\* the logical slots of a group, and those of them that exist
GroupSlots(g) == g.left_border .. (g.left_border + g.gsize - 1)
InBuffer(s) == s >= 2 /\ s <= n - 1

\* the rank table after malloc
NoRank == -1

\* rank of the successor of the suffix in cell c
SuccKey(c) ==
  IF (PosOf(c) + 1) \in DOMAIN isa THEN isa[PosOf(c) + 1] ELSE NoRank

\* stable insertion of cell c into a sequence ordered by SuccKey
RECURSIVE InsertByKey(_, _)
InsertByKey(s, c) ==
  IF s = <<>> THEN <<c>>
  ELSE IF SuccKey(c) < SuccKey(s[Len(s)])
    THEN Append(InsertByKey(SubSeq(s, 1, Len(s) - 1), c), s[Len(s)])
    ELSE Append(s, c)

RECURSIVE StableByKey(_)
StableByKey(s) ==
  IF s = <<>> THEN <<>>
  ELSE InsertByKey(StableByKey(SubSeq(s, 1, Len(s) - 1)), s[Len(s)])

\* the cells of group g, in slot order
Members(g) ==
  [j \in 1 .. g.gsize |-> SaGet(g.left_border + j - 1)]

\* first offset (1-based) of the run of equal keys that offset j lies in
RunStart(s, j) ==
  CHOOSE k \in 1 .. j :
    /\ \A m \in k .. j : SuccKey(s[m]) = SuccKey(s[j])
    /\ (k = 1 \/ SuccKey(s[k - 1]) # SuccKey(s[j]))

RunSize(s, k) ==
  Cardinality({m \in k .. Len(s) : \A x \in k .. m : SuccKey(s[x]) = SuccKey(s[k])})

\* the sub-runs of more than one member, as groups one level deeper
SubGroups(g, s) ==
  LET starts == {k \in 1 .. Len(s) : RunStart(s, k) = k /\ RunSize(s, k) > 1}
      RECURSIVE build(_)
      build(k) ==
        IF k > Len(s) THEN <<>>
        ELSE IF k \in starts
          THEN <<Group(g.left_border + k - 1, RunSize(s, k), g.rank + 1)>>
               \o build(k + 1)
          ELSE build(k + 1)
  IN  build(1)

\* some two members of g have successors of different rank
Splits(g) ==
  \E a, b \in 1 .. g.gsize : SuccKey(Members(g)[a]) # SuccKey(Members(g)[b])

\* re-partition g by successor rank: the buffer and the rank table afterwards
Refine(g) ==
  LET s == StableByKey(Members(g)) IN
    /\ sa' = [i \in DOMAIN sa |->
                IF (i + 2) \in GroupSlots(g) THEN s[i + 2 - g.left_border + 1]
                ELSE sa[i]]
    /\ isa' = [q \in DOMAIN isa |->
                IF \E j \in 1 .. Len(s) : PosOf(s[j]) = q
                  THEN LET j == CHOOSE j \in 1 .. Len(s) : PosOf(s[j]) = q
                       IN  g.left_border + RunStart(s, j) - 1
                  ELSE isa[q]]

\* isa = malloc(n); every suffix gets the left border of its group as rank, the
\* two sentinels their side slots; the groups of more than one member are open
P1Init ==
  /\ pc = "p1init"
  /\ isa' = [q \in 0 .. (n - 1) |->
              IF q = n - 1 THEN 0
              ELSE IF q = 0 THEN 1
              ELSE LET R == {result[k].left_border : k \in
                              {k \in DOMAIN result :
                                 \E s \in GroupSlots(result[k]) :
                                   InBuffer(s) /\ PosOf(SaGet(s)) = q}}
                   IN  IF R = {} THEN NoRank ELSE CHOOSE r \in R : \A x \in R : x <= r]
  /\ oob' = \E k \in DOMAIN result : \E s \in GroupSlots(result[k]) : ~InBuffer(s)
  /\ stack' = SelectSeq(result, LAMBDA g : g.gsize > 1 /\ \A s \in GroupSlots(g) : InBuffer(s))
  /\ p2groups' = <<>>
  /\ pc' = "p1"
  /\ UNCHANGED <<text, useFlags, omp, ompEntry, call, pmax, p, sa, sa01, next,
                 scan, result, P0, OUT, ambient, u, acc, entry>>

\* a singleton group outside the buffer was resolved through a wild pointer:
\* the process may die there
Fault ==
  /\ pc = "p1"
  /\ oob
  /\ pc' = "fault"
  /\ UNCHANGED <<text, useFlags, omp, ompEntry, call, pmax, p, sa, sa01, next,
                 scan, result, isa, stack, p2groups, oob, P0, OUT, ambient, u, acc, entry>>

\* pop an open group and re-partition it; sub-runs of one member are resolved,
\* longer ones are pushed back; a group that did not split is left to phase 2
P1Step ==
  /\ pc = "p1"
  /\ stack # <<>>
  /\ LET g == Head(stack) IN
       IF Splits(g)
         THEN /\ Refine(g)
              /\ stack' = SubGroups(g, StableByKey(Members(g))) \o Tail(stack)
              /\ UNCHANGED p2groups
         ELSE /\ stack' = Tail(stack)
              /\ p2groups' = Append(p2groups, g)
              /\ UNCHANGED <<sa, isa>>
  /\ UNCHANGED <<text, useFlags, omp, ompEntry, call, pc, pmax, p, sa01, next,
                 scan, result, oob, P0, OUT, ambient, u, acc, entry>>

P1Done ==
  /\ pc = "p1"
  /\ stack = <<>>
  /\ pc' = "p2"
  /\ UNCHANGED <<text, useFlags, omp, ompEntry, call, pmax, p, sa, sa01, next,
                 scan, result, isa, stack, p2groups, oob, P0, OUT, ambient, u, acc, entry>>

\* resolve the first deferred group whose members' successors are told apart
P2Step ==
  /\ pc = "p2"
  /\ \E k \in DOMAIN p2groups :
       /\ Splits(p2groups[k])
       /\ \A m \in 1 .. (k - 1) : ~Splits(p2groups[m])
       /\ Refine(p2groups[k])
       /\ p2groups' = SubSeq(p2groups, 1, k - 1)
                      \o SubGroups(p2groups[k], StableByKey(Members(p2groups[k])))
                      \o SubSeq(p2groups, k + 1, Len(p2groups))
  /\ UNCHANGED <<text, useFlags, omp, ompEntry, call, pc, pmax, p, sa01, next,
                 scan, result, stack, oob, P0, OUT, ambient, u, acc, entry>>

\* no group is left to resolve: the entries are final, their flags are cleared
P2Done ==
  /\ pc = "p2"
  /\ \A k \in DOMAIN p2groups : ~Splits(p2groups[k])
  /\ sa' = [i \in DOMAIN sa |-> remove_flag32(sa[i])]
  /\ next' = LoopStart
  /\ pc' = "dec"
  /\ entry' = [sa |-> sa', sa01 |-> sa01]
  /\ UNCHANGED <<text, useFlags, omp, ompEntry, call, pmax, p, sa01, scan,
                 result, isa, stack, p2groups, oob, P0, OUT, ambient, u, acc>>

----------------------------------------------------------------------------
(* gsaca_for_lce_wrapped: the final decrement and the thread restore       *)

\* one iteration of: for (i = 0; i < n; ++i) --sa[i]
DecIter(t) ==
  /\ pc = "dec"
  /\ CanRun(n, t)
  /\ LET i == Iter(n, t) IN SaWrite(i, CellDec(SaGet(i)))
  /\ next' = [next EXCEPT ![t] = next[t] + 1]
  /\ acc' = acc \cup {Access("dec", t, Iter(n, t), Iter(n, t))}
  /\ UNCHANGED <<text, useFlags, omp, ompEntry, call, pc, pmax, p, scan,
                 result, isa, stack, p2groups, oob, P0, OUT, ambient, u, entry>>

\* the barrier of the decrement loop; free(isa); omp_set_num_threads(p_max);
\* return to main, which goes on to its next call
Return ==
  /\ pc = "dec"
  /\ Joined(n)
  /\ omp' = [omp EXCEPT !.nthreads = pmax]
  /\ isa' = <<>>
  /\ OUT' = Append(OUT, sa)
  /\ ambient' = Append(ambient, <<ompEntry, omp'>>)
  /\ call' = call + 1
  /\ pc' = "main"
  /\ UNCHANGED <<text, useFlags, ompEntry, pmax, p, sa, sa01, next, scan,
                 result, stack, p2groups, oob, P0, u, acc, entry>>

\* the three parallel loops run by one thread, iteration by iteration, on the
\* suffix array st = [sa, sa01]
StGet(st, i) == IF i > 1 THEN st.sa[i - 2] ELSE st.sa01[i]

StWrite(st, i, c) ==
  IF i > 1 THEN [st EXCEPT !.sa[i - 2] = c] ELSE [st EXCEPT !.sa01[i] = c]

\* number of iterations of a loop: i = 1 .. n - 2 for the fill, i = 0 .. n - 1
\* for the flag loop and the decrement
LoopCount(stage) == IF stage = "fill" THEN n - 2 ELSE n

\* iteration k (counted from the lower bound) of a loop
LoopBody(stage, st, k) ==
  IF stage = "fill" THEN StWrite(st, k + 2, FillValue(k + 1))
  ELSE IF stage = "flags" THEN StWrite(st, k, FlagValue(StGet(st, k)))
  ELSE StWrite(st, k, CellDec(StGet(st, k)))

\* the first count iterations in ascending order
RECURSIVE Sequential(_, _, _)
Sequential(stage, st, count) ==
  IF count = 0 THEN st
  ELSE LoopBody(stage, Sequential(stage, st, count - 1), count - 1)

Next ==
  \/ Call
  \/ SetThreads
  \/ SeedSides
  \/ \E t \in Threads : FillIter(t)
  \/ FillJoin
  \/ Sort
  \/ ScanIter
  \/ ScanEnd
  \/ \E t \in Threads : FlagIter(t)
  \/ SwapSides
  \/ P1Init
  \/ Fault
  \/ P1Step
  \/ P1Done
  \/ P2Step
  \/ P2Done
  \/ \E t \in Threads : DecIter(t)
  \/ Return

Spec == Init /\ [][Next]_vars

----------------------------------------------------------------------------
(* uint_types.hpp.  An unsigned integer of k bytes is the sequence of its  *)
(* k bytes, least significant first, so that 40-, 48- and 64-bit values    *)
(* keep their exact width.                                                 *)

\* the k-byte value of a small number x
RECURSIVE Bytes(_, _)
Bytes(x, k) == IF k = 0 THEN <<>> ELSE <<x % 256>> \o Bytes(x \div 256, k - 1)

\* conversion of w to an unsigned type of k bytes: truncation or zero extension
Conv(w, k) == [i \in 1 .. k |-> IF i <= Len(w) THEN w[i] ELSE 0]

\* a + b in the unsigned type of a and b, carry c coming in at byte i
RECURSIVE AddFrom(_, _, _, _)
AddFrom(a, b, i, c) ==
  IF i > Len(a) THEN <<>>
  ELSE <<(a[i] + b[i] + c) % 256>> \o AddFrom(a, b, i + 1, (a[i] + b[i] + c) \div 256)

Add(a, b) == AddFrom(a, b, 1, 0)

\* a - b in the unsigned type of a and b, borrow c coming in at byte i
RECURSIVE SubFrom(_, _, _, _)
SubFrom(a, b, i, c) ==
  IF i > Len(a) THEN <<>>
  ELSE <<(a[i] - b[i] - c + 256) % 256>>
       \o SubFrom(a, b, i + 1, IF a[i] - b[i] - c < 0 THEN 1 ELSE 0)

Sub(a, b) == SubFrom(a, b, 1, 0)

\* w << 1 in the type of w, bit c coming in below byte i
RECURSIVE ShlFrom(_, _, _)
ShlFrom(w, i, c) ==
  IF i > Len(w) THEN <<>>
  ELSE <<((2 * w[i]) % 256) + c>> \o ShlFrom(w, i + 1, w[i] \div 128)

Shl1(w) == ShlFrom(w, 1, 0)

\* w >> 1 in the type of w: bytes 1..i, bit c coming in above byte i
RECURSIVE ShrUpTo(_, _, _)
ShrUpTo(w, i, c) ==
  IF i = 0 THEN <<>>
  ELSE Append(ShrUpTo(w, i - 1, w[i] % 2), (w[i] \div 2) + 128 * c)

Shr1(w) == ShrUpTo(w, Len(w), 0)

\* w << 8k
ShlBytes(w, k) == [i \in 1 .. Len(w) |-> IF i > k THEN w[i - k] ELSE 0]

\* w << c: whole bytes first, then the remaining bits one by one
RECURSIVE ShlBits(_, _)
ShlBits(w, c) ==
  IF c >= 8 THEN ShlBits(ShlBytes(w, c \div 8), c % 8)
  ELSE IF c = 0 THEN w
  ELSE ShlBits(Shl1(w), c - 1)

\* w >> 8k
ShrBytes(w, k) == [i \in 1 .. Len(w) |-> IF i + k <= Len(w) THEN w[i + k] ELSE 0]

\* x | y on two bytes
RECURSIVE OrByte(_, _, _)
OrByte(x, y, bits) ==
  IF bits = 0 THEN 0
  ELSE (IF x % 2 = 1 \/ y % 2 = 1 THEN 1 ELSE 0) + 2 * OrByte(x \div 2, y \div 2, bits - 1)

\* a | b in the type of a and b
Or(a, b) == [i \in 1 .. Len(a) |-> OrByte(a[i], b[i], 8)]

\* a < b, both of the same type
RECURSIVE LessFrom(_, _, _)
LessFrom(a, b, i) ==
  IF i = 0 THEN FALSE
  ELSE IF a[i] # b[i] THEN a[i] < b[i]
  ELSE LessFrom(a, b, i - 1)

Less(a, b) == LessFrom(a, b, Len(a))

AllOnes(k) == [i \in 1 .. k |-> 255]

\* sizeof(Low), and sizeof(High): 1 for uint40_t, 2 for uint48_t
LowBytes == 4
HighSizes == {1, 2}

\* UIntPair(const Low &l, const High &h)
UIntPair(l, h) == [low_ |-> l, high_ |-> h]

\* low_max() and high_max() as operands of a 64-bit expression
low_max == Conv(AllOnes(LowBytes), 8)
high_max(H) == Conv(AllOnes(H), 8)

\* a & m for a mask m of whole bytes
AndMask(a, m) == [i \in 1 .. Len(a) |-> IF m[i] = 255 THEN a[i] ELSE 0]

\* the constructor from a 32-bit value: the high part is lost
UIntPairFromLow(H, a) == UIntPair(Conv(a, LowBytes), Conv(<<>>, H))

\* UIntPair(const unsigned long long &a): the member initialisers
UIntPairFromULL(H, a) ==
  UIntPair(Conv(AndMask(a, low_max), LowBytes),
           Conv(AndMask(ShrBytes(a, LowBytes), high_max(H)), H))

\* the assertion compiled out
CtorUnchecked(H, a) == TRUE

\* assert((a >> (low_bits + high_bits)) == 0)
CtorAssertion(H, a) == ShrBytes(a, LowBytes + H) = Conv(<<>>, 8)

\* UIntPair::ull / u64 / operator uint64_t
ull(x) == Or(ShlBits(Conv(x.high_, 8), 8 * LowBytes), Conv(x.low_, 8))

\* UIntPair::min and UIntPair::max
UIntPairMin(H) == UIntPair(Conv(<<>>, LowBytes), Conv(<<>>, H))
UIntPairMax(H) == UIntPair(AllOnes(LowBytes), AllOnes(H))

\* operator++: the object afterwards
Increment(x) ==
  LET H == Len(x.high_) IN
    IF x.low_ = Conv(low_max, LowBytes)
      THEN UIntPair(Conv(<<>>, LowBytes), Conv(Add(Conv(x.high_, 4), Bytes(1, 4)), H))
      ELSE UIntPair(Add(x.low_, Bytes(1, LowBytes)), x.high_)

\* operator--: the object afterwards
Decrement(x) ==
  LET H == Len(x.high_) IN
    IF x.low_ = Conv(<<>>, LowBytes)
      THEN UIntPair(Conv(low_max, LowBytes), Conv(Sub(Conv(x.high_, 4), Bytes(1, 4)), H))
      ELSE UIntPair(Sub(x.low_, Bytes(1, LowBytes)), x.high_)

\* the addition with the carry out of the low part dropped
PlusNoCarry(x, y) ==
  UIntPair(Add(x.low_, y.low_), Add(x.high_, y.high_))

\* operator+ and operator+=: the value produced
Plus(x, y) ==
  LET H == Len(x.high_)
      add == Add(Conv(x.low_, 8), Conv(y.low_, 8))
  IN  UIntPair(Conv(AndMask(add, low_max), LowBytes),
               Conv(Add(Add(Conv(x.high_, 8), Conv(y.high_, 8)),
                        AndMask(ShrBytes(add, LowBytes), high_max(H))), H))

\* operator- and operator-=: the value produced
Minus(x, y) ==
  LET H == Len(x.high_)
      sub == Sub(Conv(x.low_, 8), Conv(y.low_, 8))
  IN  UIntPair(Conv(AndMask(sub, low_max), LowBytes),
               Conv(Add(Sub(Conv(x.high_, 8), Conv(y.high_, 8)),
                        AndMask(ShrBytes(sub, LowBytes), high_max(H))), H))

\* operator== and operator!=
UIntPairEq(x, y) == (x.low_ = y.low_) /\ (x.high_ = y.high_)
UIntPairNe(x, y) == (x.low_ # y.low_) \/ (x.high_ # y.high_)

\* operator<, operator<=, operator>, operator>=
UIntPairLt(x, y) ==
  Less(x.high_, y.high_) \/ (x.high_ = y.high_ /\ Less(x.low_, y.low_))
UIntPairLe(x, y) ==
  Less(x.high_, y.high_) \/ (x.high_ = y.high_ /\ ~Less(y.low_, x.low_))
UIntPairGt(x, y) ==
  Less(y.high_, x.high_) \/ (x.high_ = y.high_ /\ Less(y.low_, x.low_))
UIntPairGe(x, y) ==
  Less(y.high_, x.high_) \/ (x.high_ = y.high_ /\ ~Less(x.low_, y.low_))

\* size of the type an operand of k bytes has in an expression: operands
\* narrower than int are promoted to int (4 bytes)
Promoted(k) == IF k < 4 THEN 4 ELSE k

\* flag_type_bitset::add_flag(T t): t | mask, mask = ((T) 1) << (sizeof(T) * 8 - 1)
add_flag(t) ==
  LET k == Len(t)
      mask == Conv(ShlBits(Bytes(1, Promoted(k)), 8 * k - 1), k)
  IN  Conv(Or(Conv(t, Promoted(k)), Conv(mask, Promoted(k))), k)

\* flag_type_bitset::conditional_add_flag(bool b, T t): t | (((T) b) << shift)
conditional_add_flag(b, t) ==
  LET k == Len(t)
      bit == Bytes(IF b THEN 1 ELSE 0, Promoted(k))
  IN  Conv(Or(Conv(t, Promoted(k)), ShlBits(bit, 8 * k - 1)), k)

\* flag_type_bitset::remove_flag(T t): (t << 1) >> 1
remove_flag(t) ==
  LET k == Len(t) IN Conv(Shr1(Shl1(Conv(t, Promoted(k)))), k)

\* flag_type_bitset::add_flag(UIntPair<H> t): t.high_ |= mask
add_flag_pair(t) == [t EXCEPT !.high_ = add_flag(t.high_)]

\* flag_type_bitset::conditional_add_flag(bool b, UIntPair<H> t)
conditional_add_flag_pair(b, t) ==
  [t EXCEPT !.high_ = conditional_add_flag(b, t.high_)]

\* flag_type_bitset::remove_flag(UIntPair<H> t): (t.high_ <<= 1) >>= 1
remove_flag_pair(t) ==
  LET H == Len(t.high_)
      shifted == Conv(Shl1(Conv(t.high_, Promoted(H))), H)
  IN  [t EXCEPT !.high_ = Conv(Shr1(Conv(shifted, Promoted(H))), H)]

\* flag_type_none: add_flag, conditional_add_flag, remove_flag
add_flag_none(t) == t
conditional_add_flag_none(b, t) == t
remove_flag_none(t) == t

----------------------------------------------------------------------------
(* SpecUInt: the UIntPair and flag operations applied to boundary operands *)

mainVars == <<text, useFlags, omp, ompEntry, call, pc, pmax, p, sa, sa01, next,
              scan, result, isa, stack, p2groups, oob, P0, OUT, ambient,
              acc, entry>>

LowSamples ==
  {Bytes(0, LowBytes), Bytes(1, LowBytes), AllOnes(LowBytes),
   Sub(AllOnes(LowBytes), Bytes(1, LowBytes)), ShlBits(Bytes(1, LowBytes), 31)}

HighSamples(H) ==
  {Bytes(0, H), Bytes(1, H), AllOnes(H), Shr1(AllOnes(H)), ShlBits(Bytes(1, H), 8 * H - 1)}

PairSamples(H) == {UIntPair(l, h) : l \in LowSamples, h \in HighSamples(H)}

\* 64-bit values: those of the pairs, and some beyond the packed width
ULLSamples(H) ==
  {ull(x) : x \in PairSamples(H)}
    \cup {ShlBits(Bytes(1, 8), 8 * (LowBytes + H)),
          Add(ShlBits(Bytes(1, 8), 8 * (LowBytes + H)), Bytes(5, 8)),
          ShlBits(Bytes(1, 8), 63), AllOnes(8)}

\* the native index types uint8_t, uint16_t, uint32_t, uint64_t, in bytes
NativeSizes == {1, 2, 4, 8}

\* values of a k-byte native type
NativeSamples(k) ==
  {Bytes(0, k), Bytes(1, k), Shr1(AllOnes(k)), [i \in 1 .. k |-> 85],
   AllOnes(k), ShlBits(Bytes(1, k), 8 * k - 1)}

\* the operands an operation is applied to
ULLInputs ==
  {[op |-> "input", kind |-> "ull", H |-> H, a |-> a] :
     H \in HighSizes, a \in UNION {ULLSamples(H) : H \in HighSizes}}
PairInputs(H) ==
  {[op |-> "input", kind |-> "pair", H |-> H, a |-> a, b |-> b] :
     a \in PairSamples(H), b \in PairSamples(H)}
NativeInputs(k) ==
  {[op |-> "input", kind |-> "native", size |-> k, v |-> v, b |-> b] :
     v \in NativeSamples(k), b \in BOOLEAN}
PackedInputs(H) ==
  {[op |-> "input", kind |-> "packed", size |-> LowBytes + H, v |-> v, b |-> b] :
     v \in PairSamples(H), b \in BOOLEAN}

InitU ==
  /\ text = <<>>
  /\ useFlags = FALSE
  /\ omp = [nthreads |-> 1, dyn |-> FALSE]
  /\ ompEntry = omp
  /\ call = 1
  /\ pc = "main"
  /\ pmax = 0
  /\ p = 1
  /\ sa = <<>>
  /\ sa01 = [i \in 0 .. 1 |-> Cell(0)]
  /\ next = <<>>
  /\ scan = NoScan
  /\ result = <<>>
  /\ isa = <<>>
  /\ stack = <<>>
  /\ p2groups = <<>>
  /\ oob = FALSE
  /\ P0 = <<>>
  /\ OUT = <<>>
  /\ ambient = <<>>
  /\ acc = {}
  /\ entry = [sa |-> sa, sa01 |-> sa01]
  /\ \/ u \in ULLInputs
     \/ \E H \in HighSizes : u \in PairInputs(H)
     \/ \E k \in NativeSizes : u \in NativeInputs(k)
     \/ \E H \in HighSizes : u \in PackedInputs(H)

\* UIntPair x(a) for a 64-bit a: the assertion stops the program, or x is built
UConstruct ==
  /\ u.op = "input" /\ u.kind = "ull"
  /\ u' = [op |-> "ctor", H |-> u.H, a |-> u.a,
           aborted |-> ~CtorAssertion(u.H, u.a),
           ret |-> UIntPairFromULL(u.H, u.a)]
  /\ UNCHANGED mainVars

\* UIntPair::min() and UIntPair::max()
UMinMax ==
  /\ u.op = "input" /\ u.kind = "ull"
  /\ \/ u' = [op |-> "min", H |-> u.H, ret |-> UIntPairMin(u.H)]
     \/ u' = [op |-> "max", H |-> u.H, ret |-> UIntPairMax(u.H)]
  /\ UNCHANGED mainVars

\* ++a, a++, --a, a--: obj is a afterwards, ret the value of the expression
UIncDec ==
  /\ u.op = "input" /\ u.kind = "pair"
  /\ \/ u' = [op |-> "++a", H |-> u.H, a |-> u.a, aborted |-> FALSE,
              obj |-> Increment(u.a), ret |-> Increment(u.a)]
     \/ u' = [op |-> "a++", H |-> u.H, a |-> u.a, aborted |-> FALSE,
              obj |-> Increment(u.a), ret |-> u.a]
     \/ u' = [op |-> "--a", H |-> u.H, a |-> u.a, aborted |-> FALSE,
              obj |-> Decrement(u.a), ret |-> Decrement(u.a)]
     \/ u' = [op |-> "a--", H |-> u.H, a |-> u.a, aborted |-> FALSE,
              obj |-> Decrement(u.a), ret |-> u.a]
  /\ UNCHANGED mainVars

\* a + b, a += b, a - b, a -= b
UAddSub ==
  /\ u.op = "input" /\ u.kind = "pair"
  /\ \/ u' = [op |-> "a+b", H |-> u.H, a |-> u.a, b |-> u.b, aborted |-> FALSE,
              obj |-> u.a, ret |-> Plus(u.a, u.b)]
     \/ u' = [op |-> "a+=b", H |-> u.H, a |-> u.a, b |-> u.b, aborted |-> FALSE,
              obj |-> Plus(u.a, u.b), ret |-> Plus(u.a, u.b)]
     \/ u' = [op |-> "a-b", H |-> u.H, a |-> u.a, b |-> u.b, aborted |-> FALSE,
              obj |-> u.a, ret |-> Minus(u.a, u.b)]
     \/ u' = [op |-> "a-=b", H |-> u.H, a |-> u.a, b |-> u.b, aborted |-> FALSE,
              obj |-> Minus(u.a, u.b), ret |-> Minus(u.a, u.b)]
  /\ UNCHANGED mainVars

\* a == b, a != b, a < b, a <= b, a > b, a >= b
UCompare ==
  /\ u.op = "input" /\ u.kind = "pair"
  /\ u' = [op |-> "cmp", H |-> u.H, a |-> u.a, b |-> u.b,
           eq |-> UIntPairEq(u.a, u.b), ne |-> UIntPairNe(u.a, u.b),
           lt |-> UIntPairLt(u.a, u.b), le |-> UIntPairLe(u.a, u.b),
           gt |-> UIntPairGt(u.a, u.b), ge |-> UIntPairGe(u.a, u.b)]
  /\ UNCHANGED mainVars

\* the flag policies on a native index type of u.size bytes
UFlagNative ==
  /\ u.op = "input" /\ u.kind = "native"
  /\ \/ u' = [op |-> "flag", policy |-> "flag_type_bitset", packed |-> FALSE,
              size |-> u.size, v |-> u.v, b |-> u.b,
              added |-> add_flag(u.v),
              cond |-> conditional_add_flag(u.b, u.v),
              added_removed |-> remove_flag(add_flag(u.v)),
              cond_removed |-> remove_flag(conditional_add_flag(u.b, u.v))]
     \/ u' = [op |-> "flag", policy |-> "flag_type_none", packed |-> FALSE,
              size |-> u.size, v |-> u.v, b |-> u.b,
              added |-> add_flag_none(u.v),
              cond |-> conditional_add_flag_none(u.b, u.v),
              added_removed |-> remove_flag_none(add_flag_none(u.v)),
              cond_removed |-> remove_flag_none(conditional_add_flag_none(u.b, u.v))]
  /\ UNCHANGED mainVars

\* the flag policies on uint40_t and uint48_t
UFlagPacked ==
  /\ u.op = "input" /\ u.kind = "packed"
  /\ \/ u' = [op |-> "flag", policy |-> "flag_type_bitset", packed |-> TRUE,
              size |-> u.size, v |-> u.v, b |-> u.b,
              added |-> add_flag_pair(u.v),
              cond |-> conditional_add_flag_pair(u.b, u.v),
              added_removed |-> remove_flag_pair(add_flag_pair(u.v)),
              cond_removed |-> remove_flag_pair(conditional_add_flag_pair(u.b, u.v))]
     \/ u' = [op |-> "flag", policy |-> "flag_type_none", packed |-> TRUE,
              size |-> u.size, v |-> u.v, b |-> u.b,
              added |-> add_flag_none(u.v),
              cond |-> conditional_add_flag_none(u.b, u.v),
              added_removed |-> remove_flag_none(add_flag_none(u.v)),
              cond_removed |-> remove_flag_none(conditional_add_flag_none(u.b, u.v))]
  /\ UNCHANGED mainVars

NextU ==
  \/ UConstruct
  \/ UMinMax
  \/ UIncDec
  \/ UAddSub
  \/ UCompare
  \/ UFlagNative
  \/ UFlagPacked

SpecUInt == InitU /\ [][NextU]_vars

----------------------------------------------------------------------------
(* Properties                                                              *)

\* every call main made has returned
AllReturned == Len(OUT) = Len(ThreadArgs)

\* the output of call k as plain numbers (flagged cells have no such value)
Plain(k) == [i \in DOMAIN OUT[k] |-> IF OUT[k][i].f THEN -1 ELSE OUT[k][i].v]

\* C1: when gsaca_for_lce has returned, offsets 0..L-1 of the caller's buffer
\* hold every value of 0..L-1 exactly once, whatever the text and thread count
Thm_C1_Bijection ==
  \A k \in DOMAIN OUT : pc = "main" =>
    /\ DOMAIN OUT[k] = 0 .. (L - 1)
    /\ \A x \in 0 .. (L - 1) :
         Cardinality({i \in DOMAIN OUT[k] : Plain(k)[i] = x}) = 1

Wit_C1_Bijection ==
  /\ AllReturned
  /\ L >= 3
  /\ \E i \in DOMAIN text : text[i] = 0

\* the suffix at a is smaller than the suffix at b, the end of the text being
\* smaller than every symbol (a, b in 0..L, L being the empty suffix)
RECURSIVE SuffixLess(_, _)
SuffixLess(a, b) ==
  IF a >= L THEN b < L
  ELSE IF b >= L THEN FALSE
  ELSE IF text[a] # text[b] THEN text[a] < text[b]
  ELSE SuffixLess(a + 1, b + 1)

Claim_C4_AmbientRestored ==
  \A k \in DOMAIN ambient : ambient[k][1] = ambient[k][2]

\* C8: the view is 0 at both ends and symbol + 1 in between, without wrapping,
\* so both sentinels are below every real symbol and the symbols keep their order
Thm_C8_TextView ==
  /\ TextView(0) = 0
  /\ TextView(L + 1) = 0
  /\ \A i \in 1 .. L :
       /\ TextView(i) = text[i - 1] + 1
       /\ TextView(0) < TextView(i)
       /\ TextView(L + 1) < TextView(i)
  /\ \A i, j \in 1 .. L :
       (text[i - 1] < text[j - 1]) <=> (TextView(i) < TextView(j))

Wit_C8_TextView ==
  /\ pc = "scan"
  /\ \E i, j \in DOMAIN text : text[i] = 255 /\ text[j] = 0

\* the cell at logical slot s >= 2 when phase 0 returned, flag bit ignored
Slot(s) == sa[s - 2].v

\* C9: when sort_by_prefix_parallel returns, slots 2..L+1 hold the positions
\* 1..L once each, ascending by (symbol, position); slot 0 holds L+1, slot 1 holds 0
Thm_C9_Phase0Order ==
  pc = "p1init" =>
    /\ sa01[0] = Cell(L + 1)
    /\ sa01[1] = Cell(0)
    /\ \A x \in 1 .. L : Cardinality({s \in 2 .. (L + 1) : Slot(s) = x}) = 1
    /\ \A s, r \in 2 .. (L + 1) :
         (s < r /\ Slot(s) \in 1 .. L /\ Slot(r) \in 1 .. L) =>
           \/ text[Slot(s) - 1] < text[Slot(r) - 1]
           \/ (text[Slot(s) - 1] = text[Slot(r) - 1] /\ Slot(s) < Slot(r))

Wit_C9_Phase0Order ==
  /\ pc = "p1init"
  /\ useFlags
  /\ L >= 3
  /\ \E i, j \in DOMAIN text : i # j /\ text[i] = text[j]

RECURSIVE SumSizes(_)
SumSizes(G) == IF G = <<>> THEN 0 ELSE G[1].gsize + SumSizes(Tail(G))

\* leading symbol of the suffix at logical slot s, 2 <= s <= L + 1
LeadAt(s) == IF Slot(s) \in 1 .. L THEN text[Slot(s) - 1] ELSE -1

\* C10: the groups phase 0 returns are the maximal runs of equal leading symbol
\* of slots 2..L+1: contiguous from 2, sizes summing to L (none for L = 0), no
\* slot outside 2..L+1, neighbours of different symbol, rank 1, sorted, not final
Claim_C10_Groups ==
  pc = "p1init" =>
    /\ (L = 0 => result = <<>>)
    /\ (result # <<>> => result[1].left_border = 2)
    /\ SumSizes(result) = L
    /\ \A k \in DOMAIN result :
         /\ result[k].gsize >= 1
         /\ result[k].rank = 1 /\ result[k].sorted /\ ~result[k].final
         /\ \A s \in GroupSlots(result[k]) :
              s \in 2 .. (L + 1) /\ LeadAt(s) = LeadAt(result[k].left_border)
         /\ k < Len(result) =>
              /\ result[k].left_border + result[k].gsize = result[k + 1].left_border
              /\ result[k + 1].left_border \in 2 .. (L + 1)
              /\ LeadAt(result[k].left_border) # LeadAt(result[k + 1].left_border)

\* 2^w - 1 for the packed type with a high part of H bytes, as a 64-bit value
MaxPacked(H) == Conv(AllOnes(LowBytes + H), 8)

\* C5: a 64-bit value within the packed width, made a UIntPair and read back
\* with ull(), is unchanged; min() reads 0 and max() reads 2^w - 1
Thm_C5_RoundTrip ==
  /\ (u.op = "ctor" /\ ~Less(MaxPacked(u.H), u.a)) =>
       (~u.aborted /\ ull(u.ret) = u.a)
  /\ u.op = "min" => ull(u.ret) = Bytes(0, 8)
  /\ u.op = "max" => ull(u.ret) = MaxPacked(u.H)

Wit_C5_RoundTrip ==
  /\ u.op = "ctor"
  /\ u.H = 2
  /\ u.a = MaxPacked(2)
  /\ ull(u.ret) = <<255, 255, 255, 255, 255, 255, 0, 0>>

ArithOps == {"++a", "a++", "--a", "a--", "a+b", "a+=b", "a-b", "a-=b"}

\* the value the operation produces: the object for the updating forms, the
\* returned value for a + b and a - b
Produced == IF u.op \in {"a+b", "a-b"} THEN u.ret ELSE u.obj

\* the mathematically exact result of the operation is outside 0..2^w - 1
Overflows ==
  \/ u.op = "ctor" /\ Less(MaxPacked(u.H), u.a)
  \/ u.op \in {"++a", "a++"} /\ ull(u.a) = MaxPacked(u.H)
  \/ u.op \in {"--a", "a--"} /\ ull(u.a) = Bytes(0, 8)
  \/ u.op \in {"a+b", "a+=b"} /\ Less(MaxPacked(u.H), Add(ull(u.a), ull(u.b)))
  \/ u.op \in {"a-b", "a-=b"} /\ Less(ull(u.a), ull(u.b))

\* the exact result reduced modulo 2^w, computed in 64 bits
Wrapped ==
  LET one == Bytes(1, 8)
      r == IF u.op \in {"++a", "a++"} THEN Add(ull(u.a), one)
           ELSE IF u.op \in {"--a", "a--"} THEN Sub(ull(u.a), one)
           ELSE IF u.op \in {"a+b", "a+=b"} THEN Add(ull(u.a), ull(u.b))
           ELSE Sub(ull(u.a), ull(u.b))
  IN  Conv(Conv(r, LowBytes + u.H), 8)

\* C6 as claimed: every operation whose exact result is outside 0..2^w - 1 is
\* stopped by an assertion
Claim_C6_NoSilentWrap ==
  (u.op \in (ArithOps \cup {"ctor"}) /\ Overflows) => u.aborted

\* C6 as amended: only the construction from a 64-bit value asserts, exactly
\* when the value is outside 0..2^w - 1; increment, decrement, +, +=, - and -=
\* are never stopped, and produce the exact result reduced modulo 2^w
Thm_C6_OnlyCtorChecked ==
  /\ u.op = "ctor" => (u.aborted <=> Less(MaxPacked(u.H), u.a))
  /\ (u.op \in ArithOps /\ Overflows) =>
       (~u.aborted /\ ull(Produced) = Wrapped)

Wit_C6_OnlyCtorChecked ==
  /\ u.op = "++a"
  /\ u.a = UIntPairMax(u.H)
  /\ u.obj = UIntPairMin(u.H)

\* the reserved top bit of a value is clear
TopClear ==
  IF u.packed THEN u.v.high_[Len(u.v.high_)] < 128 ELSE u.v[Len(u.v)] < 128

\* C7: for both policies and every index type, tagging a value whose top bit is
\* clear and untagging it gives the value back
Claim_C7_FlagRoundTrip ==
  (u.op = "flag" /\ TopClear) =>
    (u.cond_removed = u.v /\ u.added_removed = u.v)

\* C11: when sort_by_prefix_parallel returns, a slot of 2..L+1 holding position
\* p is flagged exactly when the flag policy is the bitset one and
\* view[p - 1] < view[p]; its value without the flag is still p, in the sorted
\* order; the side slots are not flagged; without flags no slot is flagged
Thm_C11_FlagTagging ==
  pc = "p1init" =>
    /\ ~sa01[0].f /\ ~sa01[1].f
    /\ \A s \in 2 .. (L + 1) :
         /\ Slot(s) \in 1 .. L
         /\ sa[s - 2].f <=> (useFlags /\ TextView(Slot(s) - 1) < TextView(Slot(s)))
    /\ \A s, r \in 2 .. (L + 1) : s < r => comp(Cell(Slot(s)), Cell(Slot(r)))

Wit_C11_FlagTagging ==
  /\ pc = "p1init"
  /\ useFlags
  /\ L >= 3
  /\ \E s, r \in 2 .. (L + 1) :
       /\ sa[s - 2].f /\ ~sa[r - 2].f
       /\ TextView(Slot(r) - 1) = TextView(Slot(r))

\* the stages of a call that go through the suffix array view or its buffer
Stages == {"seed", "fill", "sort", "scan", "flags", "swap", "dec"}

\* C12: slots 0 and 1 are the side slots, slot i >= 2 is caller offset i - 2,
\* different slots are different cells; every cell phase 0 and the final
\* decrement read or write is a side slot or a caller offset in 0..L-1, and for
\* the empty text no caller cell is touched
Thm_C12_BufferBounds ==
  /\ \A i \in 0 .. 1 : SaCell(i) = [cell |-> "sa01", off |-> i]
  /\ \A i \in 2 .. (L + 1) : SaCell(i) = [cell |-> "sa", off |-> i - 2]
  /\ \A i, j \in 0 .. (L + 1) : i # j => SaCell(i) # SaCell(j)
  /\ \A a \in acc :
       /\ a.stage \in Stages
       /\ \/ a.at.cell = "sa01" /\ a.at.off \in 0 .. 1
          \/ a.at.cell = "sa" /\ a.at.off \in 0 .. (L - 1)
       /\ L = 0 => a.at.cell = "sa01"

Wit_C12_BufferBounds ==
  /\ pc = "main"
  /\ L >= 3
  /\ \A st \in Stages \ {"seed", "swap"} :
       \E a \in acc : a.stage = st /\ a.at = [cell |-> "sa", off |-> L - 1]
  /\ \A st \in {"seed", "flags", "swap", "dec"} :
       \E a \in acc : a.stage = st /\ a.at = [cell |-> "sa01", off |-> 1]

\* C13: +, +=, -, -=, ++ and -- on packed values decode to the 64-bit result
\* reduced modulo 2^w, the postfix forms returning the old value and the others
\* the new one; the six comparisons are those of the decoded 64-bit values
Thm_C13_NativeArithmetic ==
  /\ u.op \in ArithOps =>
       /\ ull(Produced) = Wrapped
       /\ u.op \in {"a++", "a--"} => u.ret = u.a
       /\ u.op \in {"++a", "--a", "a+=b", "a-=b"} => u.ret = u.obj
       /\ u.op \in {"a+b", "a-b"} => u.obj = u.a
  /\ u.op = "cmp" =>
       /\ u.eq <=> (ull(u.a) = ull(u.b))
       /\ u.ne <=> (ull(u.a) # ull(u.b))
       /\ u.lt <=> Less(ull(u.a), ull(u.b))
       /\ u.le <=> ~Less(ull(u.b), ull(u.a))
       /\ u.gt <=> Less(ull(u.b), ull(u.a))
       /\ u.ge <=> ~Less(ull(u.a), ull(u.b))

Wit_C13_NativeArithmetic ==
  /\ u.op = "a+b"
  /\ u.H = 1
  /\ u.a = UIntPair(AllOnes(LowBytes), Bytes(0, 1))
  /\ u.b = UIntPair(Bytes(1, LowBytes), Bytes(0, 1))
  /\ ull(u.ret) = <<0, 0, 0, 0, 1, 0, 0, 0>>

ParallelLoops == {"fill", "flags", "dec"}

\* the logical slots a loop goes over
LoopSlots(stage) == IF stage = "fill" THEN 2 .. (n - 1) ELSE 0 .. (n - 1)

\* C14: in the fill, flag and decrement loops no cell is accessed by two
\* iterations or two threads; at the join every slot of the loop has been
\* accessed and the suffix array is what the iterations run one after the
\* other produce; the decrement lowers every caller cell by exactly 1
Thm_C14_InterleavingIndependent ==
  /\ \A a, b \in acc :
       (a.stage \in ParallelLoops /\ a.stage = b.stage /\ a.at = b.at) =>
         (a.iter = b.iter /\ a.t = b.t)
  /\ \A stage \in ParallelLoops :
       (pc = stage /\ Joined(LoopCount(stage))) =>
         /\ [sa |-> sa, sa01 |-> sa01] = Sequential(stage, entry, LoopCount(stage))
         /\ \A i \in LoopSlots(stage) :
              Cardinality({a \in acc : a.stage = stage /\ a.slot = i}) = 1
  /\ (pc = "dec" /\ Joined(n)) =>
       \A o \in DOMAIN sa :
         /\ sa[o].f = entry.sa[o].f
         /\ entry.sa[o].v >= 1
         /\ sa[o].v = entry.sa[o].v - 1

Wit_C14_InterleavingIndependent ==
  /\ pc = "dec"
  /\ Joined(n)
  /\ p = 4
  /\ L >= 3
  /\ \A t \in Threads : \E a \in acc : a.stage = "dec" /\ a.t = t

====
